---- MODULE Spec2Model ----
(***************************************************************************)
(* Model of src/optimizer.py: Container, Product and PackingOptimizer.     *)
(*                                                                         *)
(* Lengths are whole numbers of a unit of 0.6 mm (0.0006 m), a unit that   *)
(* is not a multiple of 0.1 cm, so that the rounding of y_overhang_cm to   *)
(* one decimal of a centimetre acts; y_overhang_cm is kept as a whole      *)
(* number of tenths of a centimetre.  The arithmetic of Spec and of the    *)
(* specifications built on its actions is exact: math.floor(a / b) is the  *)
(* integer quotient a \div b.  SpecFloat carries out the same steps in     *)
(* binary floating point, on lengths of two decimals.                      *)
(*                                                                         *)
(* One PackingOptimizer instance is modelled; Init is any freshly          *)
(* constructed instance.  Its attributes are public, so a caller may       *)
(* change the container, the product or lock_vertical after a call and     *)
(* call optimize() again; one such change per instance is explored.        *)
(* optimize() is single-threaded and runs from its first to its last line  *)
(* without any other access to the instance, so it is one action.          *)
(* The log_text entry of the returned dictionary is a rendering of the     *)
(* other entries and is not modelled.  The inputs explored are the         *)
(* validated ones: positive dimensions and edges, non-negative tolerance.  *)
(***************************************************************************)
EXTENDS Integers, Sequences, FiniteSets

\* Bounds of the explored input space
MaxDim == 2
MaxTol == 1
MaxEdge == 2
MaxCalls == 2

Dims == 1..MaxDim
Tols == 0..MaxTol
Edges == 1..MaxEdge

VARIABLES container, product, lock_vertical,
          best_orientation, best_count, best_distribution, best_overhang_cm,
          orientations, results, result, calls, rebound, last_inputs,
          error, other, frames

vars == <<container, product, lock_vertical,
          best_orientation, best_count, best_distribution, best_overhang_cm,
          orientations, results, result, calls, rebound, last_inputs,
          error, other, frames>>

\* Python's None (best_orientation before any orientation was selected)
None == <<>>

\* best_overhang_cm is not assigned by __init__: the attribute does not exist yet
Unset == 0 - 1

\* No dictionary has been returned by optimize() yet
NoResult == [returned |-> FALSE]

\* No exception has left optimize()
NoError == "none"

\* There is no second PackingOptimizer
NoOptimizer == [constructed |-> FALSE]

\* No invocation of optimize() is under way
NoFrames == <<>>

Max(a, b) == IF a > b THEN a ELSE b

\* Dimension3D(x, y, z)
Dimension3D(x, y, z) == [x |-> x, y |-> y, z |-> z]

\* Container(x, y, z, y_tolerance)
Container(x, y, z, y_tolerance) ==
    [dimensions |-> Dimension3D(x, y, z), y_tolerance |-> y_tolerance]

\* Container.effective_y
effective_y(c) == c.dimensions.y + c.y_tolerance

\* Product(length, width, height)
Product(length, width, height) == [dimensions |-> <<length, width, height>>]

Containers == {Container(x, y, z, t) : x \in Dims, y \in Dims, z \in Dims, t \in Tols}
Products == {Product(l, w, h) : l \in Edges, w \in Edges, h \in Edges}

\* s without its n-th element
Remove(s, n) == SubSeq(s, 1, n - 1) \o SubSeq(s, n + 1, Len(s))

\* itertools.permutations(s): tuples in the order of the positions chosen,
\* first position first; elements are told apart by position, not by value
RECURSIVE permutations(_), PermFrom(_, _)
PermFrom(s, n) ==
    IF n > Len(s) THEN <<>>
    ELSE LET rest == permutations(Remove(s, n))
         IN  [k \in 1..Len(rest) |-> <<s[n]>> \o rest[k]] \o PermFrom(s, n + 1)

permutations(s) == IF s = <<>> THEN << <<>> >> ELSE PermFrom(s, 1)

\* s with only the first occurrence of every value
RECURSIVE Distinct(_)
Distinct(s) ==
    IF s = <<>> THEN <<>>
    ELSE LET front == Distinct(SubSeq(s, 1, Len(s) - 1))
         IN  IF \E k \in DOMAIN front : front[k] = s[Len(s)]
             THEN front ELSE Append(front, s[Len(s)])

\* Variant: orientations that are equal as tuples are listed once
get_orientations_distinct(p, lock) ==
    IF lock
    THEN << <<p.dimensions[1], p.dimensions[2], p.dimensions[3]>>,
            <<p.dimensions[2], p.dimensions[1], p.dimensions[3]>> >>
    ELSE Distinct(permutations(p.dimensions))

\* Variant: the test of lock_vertical is inverted
get_orientations_inverted(p, lock) ==
    IF ~ lock
    THEN << <<p.dimensions[1], p.dimensions[2], p.dimensions[3]>>,
            <<p.dimensions[2], p.dimensions[1], p.dimensions[3]>> >>
    ELSE permutations(p.dimensions)

\* Product.get_orientations(lock_vertical)
get_orientations(p, lock) ==
    IF lock
    THEN << <<p.dimensions[1], p.dimensions[2], p.dimensions[3]>>,
            <<p.dimensions[2], p.dimensions[1], p.dimensions[3]>> >>
    ELSE permutations(p.dimensions)

\* The feasibility test of calculate_quantity, negated: the orientation fits
Fits(c, orientation) ==
    ~ (\/ orientation[1] > c.dimensions.x
       \/ orientation[2] > effective_y(c)
       \/ orientation[3] > c.dimensions.z)

\* Variant: the count along Y is taken against the nominal depth
calculate_quantity_nominal_y(c, orientation) ==
    IF ~ Fits(c, orientation)
    THEN [total |-> 0, distribution |-> <<0, 0, 0>>]
    ELSE LET count_x == c.dimensions.x \div orientation[1]
             count_y == c.dimensions.y \div orientation[2]
             count_z == c.dimensions.z \div orientation[3]
         IN  [total |-> count_x * count_y * count_z,
              distribution |-> <<count_x, count_y, count_z>>]

\* Variant: an edge equal to its bound is rejected (>= for >)
calculate_quantity_strict(c, orientation) ==
    IF \/ orientation[1] >= c.dimensions.x
       \/ orientation[2] >= effective_y(c)
       \/ orientation[3] >= c.dimensions.z
    THEN [total |-> 0, distribution |-> <<0, 0, 0>>]
    ELSE LET count_x == c.dimensions.x \div orientation[1]
             count_y == effective_y(c) \div orientation[2]
             count_z == c.dimensions.z \div orientation[3]
         IN  [total |-> count_x * count_y * count_z,
              distribution |-> <<count_x, count_y, count_z>>]

\* Variant: the tolerance is added to the length along X as well
calculate_quantity_tolerant_x(c, orientation) ==
    IF ~ Fits(c, orientation)
    THEN [total |-> 0, distribution |-> <<0, 0, 0>>]
    ELSE LET count_x == (c.dimensions.x + c.y_tolerance) \div orientation[1]
             count_y == effective_y(c) \div orientation[2]
             count_z == c.dimensions.z \div orientation[3]
         IN  [total |-> count_x * count_y * count_z,
              distribution |-> <<count_x, count_y, count_z>>]

\* Variant: the operands of the division along X are exchanged
calculate_quantity_swapped(c, orientation) ==
    IF ~ Fits(c, orientation)
    THEN [total |-> 0, distribution |-> <<0, 0, 0>>]
    ELSE LET count_x == orientation[1] \div c.dimensions.x
             count_y == effective_y(c) \div orientation[2]
             count_z == c.dimensions.z \div orientation[3]
         IN  [total |-> count_x * count_y * count_z,
              distribution |-> <<count_x, count_y, count_z>>]

\* PackingOptimizer.calculate_quantity(orientation)
calculate_quantity(c, orientation) ==
    IF ~ Fits(c, orientation)
    THEN [total |-> 0, distribution |-> <<0, 0, 0>>]
    ELSE LET count_x == c.dimensions.x \div orientation[1]
             count_y == effective_y(c) \div orientation[2]
             count_z == c.dimensions.z \div orientation[3]
         IN  [total |-> count_x * count_y * count_z,
              distribution |-> <<count_x, count_y, count_z>>]

\* y_overhang of one orientation, in grid units, against the nominal depth
YOverhang(c, orientation, distribution) ==
    Max(0, distribution[2] * orientation[2] - c.dimensions.y)

\* n / d rounded to the nearest integer
RoundDiv(n, d) == (2 * n + d) \div (2 * d)

\* round(y_overhang * 100, 1), in tenths of a centimetre: u units are
\* u * 6 / 10000 metres, times 100 centimetres, times 10 tenths
OverhangCm(u) == RoundDiv(u * 6 * 100 * 10, 10000)

\* Variant: the comparison is made against 0 instead of the running best
BetterThanZero(total, best) == total > 0

\* The test that replaces the running best
Better(total, best) == total > best

\* Variant: the list of an earlier call is kept and appended to
KeptResults(old) == old

\* results = [] at the start of optimize()
EmptyResults(old) == <<>>

\* The inputs bound to the instance
Inputs == [container |-> container, product |-> product, lock_vertical |-> lock_vertical]

TypeOK ==
    /\ container \in Containers
    /\ product \in Products
    /\ lock_vertical \in BOOLEAN
    /\ calls \in 0..MaxCalls
    /\ rebound \in BOOLEAN
    /\ best_count \in Nat
    /\ best_overhang_cm \in Nat \cup {Unset}
    /\ error \in {NoError, "ZeroDivisionError"}

\* PackingOptimizer.__init__: a freshly constructed instance
Init ==
    /\ container \in Containers
    /\ product \in Products
    /\ lock_vertical \in BOOLEAN
    /\ best_orientation = None
    /\ best_count = 0
    /\ best_distribution = <<0, 0, 0>>
    /\ best_overhang_cm = Unset
    /\ orientations = <<>>
    /\ results = <<>>
    /\ result = NoResult
    /\ calls = 0
    /\ rebound = FALSE
    /\ last_inputs = NoResult
    /\ error = NoError
    /\ other = NoOptimizer
    /\ frames = NoFrames

\* Containers c and d differ in exactly one of x, y, z and y_tolerance
OneFieldApart(c, d) ==
    Cardinality({f \in {"x", "y", "z"} : c.dimensions[f] # d.dimensions[f]})
      + (IF c.y_tolerance # d.y_tolerance THEN 1 ELSE 0) = 1

\* The caller may still change an input: a call has returned, another call
\* can follow, and no input of the instance was changed before
MayRebind == calls > 0 /\ calls < MaxCalls /\ ~ rebound

\* optimizer.container.dimensions.x = v (or .y, .z), optimizer.container.y_tolerance = v
RebindContainer ==
    /\ MayRebind
    /\ \E c \in Containers : OneFieldApart(c, container) /\ container' = c
    /\ rebound' = TRUE
    /\ UNCHANGED <<product, lock_vertical, best_orientation, best_count,
                   best_distribution, best_overhang_cm, orientations,
                   results, result, calls, last_inputs, error, other, frames>>

\* optimizer.product = p
RebindProduct ==
    /\ MayRebind
    /\ \E p \in Products : p # product /\ product' = p
    /\ rebound' = TRUE
    /\ UNCHANGED <<container, lock_vertical, best_orientation, best_count,
                   best_distribution, best_overhang_cm, orientations,
                   results, result, calls, last_inputs, error, other, frames>>

\* optimizer.lock_vertical = not optimizer.lock_vertical
RebindLock ==
    /\ MayRebind
    /\ lock_vertical' = ~ lock_vertical
    /\ rebound' = TRUE
    /\ UNCHANGED <<container, product, best_orientation, best_count,
                   best_distribution, best_overhang_cm, orientations,
                   results, result, calls, last_inputs, error, other, frames>>

\* calculate_quantity(orientation) divides by an edge that is 0: the
\* feasibility test has let the orientation pass and one of the three
\* divisions raises ZeroDivisionError
ZeroDivision(c, orientation) ==
    /\ Fits(c, orientation)
    /\ \E a \in 1..3 : orientation[a] = 0

\* Variant: best_distribution is not assigned with the other best fields
Iterate_keeps_distribution(acc, c, orientation) ==
    IF ZeroDivision(c, orientation)
    THEN [acc EXCEPT !.error = "ZeroDivisionError"]
    ELSE
    LET q == calculate_quantity(c, orientation)
        y_overhang == YOverhang(c, orientation, q.distribution)
        y_overhang_cm == OverhangCm(y_overhang)
        appended == Append(acc.results,
                           [orientation |-> orientation,
                            total |-> q.total,
                            distribution |-> q.distribution,
                            y_overhang_cm |-> y_overhang_cm])
    IN  IF Better(q.total, acc.best_count)
        THEN [best_count |-> q.total,
              best_orientation |-> orientation,
              best_distribution |-> acc.best_distribution,
              best_overhang_cm |-> y_overhang_cm,
              results |-> appended,
              error |-> acc.error]
        ELSE [acc EXCEPT !.results = appended]

\* One iteration of the loop of optimize() on orientation, from the best
\* fields and the results list in acc
Iterate(acc, c, orientation) ==
    IF ZeroDivision(c, orientation)
    THEN [acc EXCEPT !.error = "ZeroDivisionError"]
    ELSE
    LET q == calculate_quantity(c, orientation)
        y_overhang == YOverhang(c, orientation, q.distribution)
        y_overhang_cm == OverhangCm(y_overhang)
        appended == Append(acc.results,
                           [orientation |-> orientation,
                            total |-> q.total,
                            distribution |-> q.distribution,
                            y_overhang_cm |-> y_overhang_cm])
    IN  IF Better(q.total, acc.best_count)
        THEN [best_count |-> q.total,
              best_orientation |-> orientation,
              best_distribution |-> q.distribution,
              best_overhang_cm |-> y_overhang_cm,
              results |-> appended,
              error |-> acc.error]
        ELSE [acc EXCEPT !.results = appended]

\* Variant: the loop ends before the last orientation
RECURSIVE Loop_stops_early(_, _, _, _)
Loop_stops_early(acc, c, os, k) ==
    IF k >= Len(os) \/ acc.error # NoError THEN acc
    ELSE Loop_stops_early(Iterate(acc, c, os[k]), c, os, k + 1)

\* The loop of optimize() over the orientations os, from the k-th on; an
\* exception ends it
RECURSIVE Loop(_, _, _, _)
Loop(acc, c, os, k) ==
    IF k > Len(os) \/ acc.error # NoError THEN acc
    ELSE Loop(Iterate(acc, c, os[k]), c, os, k + 1)

\* optimizer.optimize()
Optimize ==
    /\ calls < MaxCalls
    /\ \E os \in {get_orientations(product, lock_vertical)} :
       \E start \in {[best_count |-> best_count,
                       best_orientation |-> best_orientation,
                       best_distribution |-> best_distribution,
                       best_overhang_cm |-> best_overhang_cm,
                       results |-> EmptyResults(results),
                       error |-> NoError]} :
       \E end \in {Loop(start, container, os, 1)} :
           /\ orientations' = os
           /\ results' = end.results
           /\ best_count' = end.best_count
           /\ best_orientation' = end.best_orientation
           /\ best_distribution' = end.best_distribution
           /\ error' = end.error
           /\ IF end.error # NoError
              THEN \* the exception leaves optimize(): nothing is returned
                   /\ best_overhang_cm' = end.best_overhang_cm
                   /\ result' = NoResult
              ELSE /\ best_overhang_cm' = IF end.best_count = 0 THEN 0 ELSE end.best_overhang_cm
                   /\ result' = [returned |-> TRUE,
                                 best_orientation |-> end.best_orientation,
                                 best_count |-> end.best_count,
                                 best_distribution |-> end.best_distribution,
                                 overflow_y |-> best_overhang_cm',
                                 all_results |-> end.results]
    /\ last_inputs' = Inputs
    /\ calls' = calls + 1
    /\ UNCHANGED <<container, product, lock_vertical, rebound, other, frames>>

Next ==
    \/ RebindContainer
    \/ RebindProduct
    \/ RebindLock
    \/ Optimize

Spec == Init /\ [][Next]_vars

(***************************************************************************)
(* Two optimizers.  Beside the instance held in the variables above, a     *)
(* second PackingOptimizer is constructed, for the same product and for a  *)
(* container that is the first one's or differs from it in one of x, y and *)
(* z, with lock_vertical set or not.  Each of the two instances is fresh   *)
(* and optimize() is called once on each, in either order.                 *)
(***************************************************************************)

\* PackingOptimizer(c, p, lock): the attributes of a fresh instance
PackingOptimizer(c, p, lock) ==
    [constructed |-> TRUE,
     container |-> c, product |-> p, lock_vertical |-> lock,
     best_orientation |-> None, best_count |-> 0,
     best_distribution |-> <<0, 0, 0>>, best_overhang_cm |-> Unset,
     calls |-> 0, error |-> NoError, result |-> NoResult]

\* Containers c and d are equal or differ in exactly one of x, y and z
AtMostOneDimensionApart(c, d) ==
    /\ c.y_tolerance = d.y_tolerance
    /\ Cardinality({f \in {"x", "y", "z"} : c.dimensions[f] # d.dimensions[f]}) <= 1

InitPair ==
    /\ container \in Containers
    /\ product \in Products
    /\ lock_vertical \in BOOLEAN
    /\ best_orientation = None
    /\ best_count = 0
    /\ best_distribution = <<0, 0, 0>>
    /\ best_overhang_cm = Unset
    /\ orientations = <<>>
    /\ results = <<>>
    /\ result = NoResult
    /\ calls = 0
    /\ rebound = FALSE
    /\ last_inputs = NoResult
    /\ error = NoError
    /\ \E c \in Containers, lock \in BOOLEAN :
          /\ AtMostOneDimensionApart(c, container)
          /\ other = PackingOptimizer(c, product, lock)
    /\ frames = NoFrames

\* optimize() on the first instance, fresh
OptimizeFirst == calls = 0 /\ Optimize

\* optimize() on the second instance, fresh
OptimizeOther ==
    /\ other.constructed
    /\ other.calls = 0
    /\ \E os \in {get_orientations(other.product, other.lock_vertical)} :
       \E start \in {[best_count |-> other.best_count,
                       best_orientation |-> other.best_orientation,
                       best_distribution |-> other.best_distribution,
                       best_overhang_cm |-> other.best_overhang_cm,
                       results |-> <<>>,
                       error |-> NoError]} :
       \E end \in {Loop(start, other.container, os, 1)} :
       \E overhang \in {IF end.error # NoError \/ end.best_count # 0
                         THEN end.best_overhang_cm ELSE 0} :
           other' = [other EXCEPT
                       !.best_count = end.best_count,
                       !.best_orientation = end.best_orientation,
                       !.best_distribution = end.best_distribution,
                       !.best_overhang_cm = overhang,
                       !.calls = other.calls + 1,
                       !.error = end.error,
                       !.result =
                           IF end.error # NoError THEN NoResult
                           ELSE [returned |-> TRUE,
                                 best_orientation |-> end.best_orientation,
                                 best_count |-> end.best_count,
                                 best_distribution |-> end.best_distribution,
                                 overflow_y |-> overhang,
                                 all_results |-> end.results]]
    /\ UNCHANGED <<container, product, lock_vertical, best_orientation, best_count,
                   best_distribution, best_overhang_cm, orientations, results,
                   result, calls, rebound, last_inputs, error, frames>>

NextPair ==
    \/ OptimizeFirst
    \/ OptimizeOther

SpecPair == InitPair /\ [][NextPair]_vars

(***************************************************************************)
(* Interleaved invocations.  optimize() keeps its running best in the      *)
(* attributes best_count, best_orientation, best_distribution and          *)
(* best_overhang_cm of the instance.  Here optimize() is invoked           *)
(* MaxInvocations times on one fresh instance, by as many threads, and the *)
(* invocations advance in any order, one read or write of these attributes *)
(* at a time (CPython switches threads between bytecodes; one attribute    *)
(* read or write is one bytecode).  What an invocation computes from its   *)
(* own locals and from the inputs, which nobody changes here, is part of   *)
(* the step that next reads or writes an attribute.  frames[t] holds the   *)
(* locals of invocation t, the line it is at (pc) and the dictionary it    *)
(* builds for its return statement (ret).                                  *)
(***************************************************************************)

\* The number of interleaved invocations
MaxInvocations == 2

Threads == 1..MaxInvocations

\* The frame of an invocation that has not executed anything yet
NewFrame ==
    [pc |-> "begin", orientations |-> <<>>, k |-> 0, results |-> <<>>,
     orientation |-> None, total |-> 0, distribution |-> <<0, 0, 0>>,
     y_overhang_cm |-> 0, ret |-> NoResult]

InitThreads ==
    /\ container \in Containers
    /\ product \in Products
    /\ lock_vertical \in BOOLEAN
    /\ best_orientation = None
    /\ best_count = 0
    /\ best_distribution = <<0, 0, 0>>
    /\ best_overhang_cm = Unset
    /\ orientations = <<>>
    /\ results = <<>>
    /\ result = NoResult
    /\ calls = 0
    /\ rebound = FALSE
    /\ last_inputs = NoResult
    /\ error = NoError
    /\ other = NoOptimizer
    /\ frames = [t \in Threads |-> NewFrame]

\* What no step of an invocation changes
Untouched ==
    UNCHANGED <<container, product, lock_vertical, orientations, results,
                result, calls, rebound, last_inputs, error, other>>

\* Lines 130-133: the candidate orientations and the empty results list
Begin(t) ==
    /\ frames[t].pc = "begin"
    /\ frames' = [frames EXCEPT ![t].orientations = get_orientations(product, lock_vertical),
                                ![t].results = <<>>,
                                ![t].k = 1,
                                ![t].pc = "for"]
    /\ UNCHANGED <<best_count, best_orientation, best_distribution, best_overhang_cm>>
    /\ Untouched

\* Line 134, the list is exhausted; line 156 reads best_count
EndFor(t) ==
    /\ frames[t].pc = "for"
    /\ frames[t].k > Len(frames[t].orientations)
    /\ frames' = [frames EXCEPT ![t].pc = IF best_count = 0 THEN "line158" ELSE "line164"]
    /\ UNCHANGED <<best_count, best_orientation, best_distribution, best_overhang_cm>>
    /\ Untouched

\* Lines 134-150: the next orientation is evaluated and appended to results;
\* line 150 reads best_count
For(t) ==
    /\ frames[t].pc = "for"
    /\ frames[t].k <= Len(frames[t].orientations)
    /\ \E f \in {frames[t]} :
       \E orientation \in {f.orientations[f.k]} :
       \E q \in {calculate_quantity(container, orientation)} :
       \E y_overhang_cm \in {OverhangCm(YOverhang(container, orientation, q.distribution))} :
           frames' = [frames EXCEPT ![t] =
               [f EXCEPT !.orientation = orientation,
                         !.total = q.total,
                         !.distribution = q.distribution,
                         !.y_overhang_cm = y_overhang_cm,
                         !.results = Append(f.results,
                                            [orientation |-> orientation,
                                             total |-> q.total,
                                             distribution |-> q.distribution,
                                             y_overhang_cm |-> y_overhang_cm]),
                         !.k = IF Better(q.total, best_count) THEN f.k ELSE f.k + 1,
                         !.pc = IF Better(q.total, best_count) THEN "line151" ELSE "for"]]
    /\ UNCHANGED <<best_count, best_orientation, best_distribution, best_overhang_cm>>
    /\ Untouched

\* Line 151: self.best_count = total
Line151(t) ==
    /\ frames[t].pc = "line151"
    /\ best_count' = frames[t].total
    /\ frames' = [frames EXCEPT ![t].pc = "line152"]
    /\ UNCHANGED <<best_orientation, best_distribution, best_overhang_cm>>
    /\ Untouched

\* Line 152: self.best_orientation = orientation
Line152(t) ==
    /\ frames[t].pc = "line152"
    /\ best_orientation' = frames[t].orientation
    /\ frames' = [frames EXCEPT ![t].pc = "line153"]
    /\ UNCHANGED <<best_count, best_distribution, best_overhang_cm>>
    /\ Untouched

\* Line 153: self.best_distribution = distribution
Line153(t) ==
    /\ frames[t].pc = "line153"
    /\ best_distribution' = frames[t].distribution
    /\ frames' = [frames EXCEPT ![t].pc = "line154"]
    /\ UNCHANGED <<best_count, best_orientation, best_overhang_cm>>
    /\ Untouched

\* Line 154: self.best_overhang_cm = y_overhang_cm, and on to the next orientation
Line154(t) ==
    /\ frames[t].pc = "line154"
    /\ best_overhang_cm' = frames[t].y_overhang_cm
    /\ frames' = [frames EXCEPT ![t].pc = "for", ![t].k = frames[t].k + 1]
    /\ UNCHANGED <<best_count, best_orientation, best_distribution>>
    /\ Untouched

\* Line 158: self.best_overhang_cm = 0
Line158(t) ==
    /\ frames[t].pc = "line158"
    /\ best_overhang_cm' = 0
    /\ frames' = [frames EXCEPT ![t].pc = "line167"]
    /\ UNCHANGED <<best_count, best_orientation, best_distribution>>
    /\ Untouched

\* Lines 160-164: the log text of the best orientation; line 164 reads
\* self.best_overhang_cm, which raises AttributeError while no invocation
\* has assigned the attribute
Line164(t) ==
    /\ frames[t].pc = "line164"
    /\ frames' = [frames EXCEPT ![t].pc = IF best_overhang_cm = Unset
                                           THEN "AttributeError" ELSE "line167"]
    /\ UNCHANGED <<best_count, best_orientation, best_distribution, best_overhang_cm>>
    /\ Untouched

\* Line 167: "best_orientation": self.best_orientation
Line167(t) ==
    /\ frames[t].pc = "line167"
    /\ frames' = [frames EXCEPT ![t].ret = [best_orientation |-> best_orientation],
                                ![t].pc = "line168"]
    /\ UNCHANGED <<best_count, best_orientation, best_distribution, best_overhang_cm>>
    /\ Untouched

\* Line 168: "best_count": self.best_count
Line168(t) ==
    /\ frames[t].pc = "line168"
    /\ frames' = [frames EXCEPT ![t].ret = [best_orientation |-> frames[t].ret.best_orientation,
                                           best_count |-> best_count],
                                ![t].pc = "line169"]
    /\ UNCHANGED <<best_count, best_orientation, best_distribution, best_overhang_cm>>
    /\ Untouched

\* Line 169: "best_distribution": self.best_distribution
Line169(t) ==
    /\ frames[t].pc = "line169"
    /\ frames' = [frames EXCEPT ![t].ret = [best_orientation |-> frames[t].ret.best_orientation,
                                           best_count |-> frames[t].ret.best_count,
                                           best_distribution |-> best_distribution],
                                ![t].pc = "line170"]
    /\ UNCHANGED <<best_count, best_orientation, best_distribution, best_overhang_cm>>
    /\ Untouched

\* Lines 170-173: "overflow_y": self.best_overhang_cm, "all_results": results,
\* and the dictionary is returned
Line170(t) ==
    /\ frames[t].pc = "line170"
    /\ frames' = [frames EXCEPT ![t].ret = [returned |-> TRUE,
                                           best_orientation |-> frames[t].ret.best_orientation,
                                           best_count |-> frames[t].ret.best_count,
                                           best_distribution |-> frames[t].ret.best_distribution,
                                           overflow_y |-> best_overhang_cm,
                                           all_results |-> frames[t].results],
                                ![t].pc = "returned"]
    /\ UNCHANGED <<best_count, best_orientation, best_distribution, best_overhang_cm>>
    /\ Untouched

NextThreads ==
    \E t \in Threads :
        \/ Begin(t)
        \/ For(t)
        \/ EndFor(t)
        \/ Line151(t)
        \/ Line152(t)
        \/ Line153(t)
        \/ Line154(t)
        \/ Line158(t)
        \/ Line164(t)
        \/ Line167(t)
        \/ Line168(t)
        \/ Line169(t)
        \/ Line170(t)

SpecThreads == InitThreads /\ [][NextThreads]_vars

(***************************************************************************)
(* Unvalidated inputs.  Neither Container.__init__ nor Product.__init__    *)
(* nor PackingOptimizer.__init__ examines its arguments, so an instance    *)
(* can be constructed for zero and negative lengths as well; optimize()    *)
(* is then called on it.                                                   *)
(***************************************************************************)

\* The least value explored for a length
Lowest == 0 - 1

AnyContainers ==
    {Container(x, y, z, t) : x \in Lowest..MaxDim, y \in Lowest..MaxDim,
                             z \in Lowest..MaxDim, t \in Lowest..MaxTol}
AnyProducts ==
    {Product(l, w, h) : l \in Lowest..MaxEdge, w \in Lowest..MaxEdge,
                        h \in Lowest..MaxEdge}

InitAnyInput ==
    /\ container \in AnyContainers
    /\ product \in AnyProducts
    /\ lock_vertical \in BOOLEAN
    /\ best_orientation = None
    /\ best_count = 0
    /\ best_distribution = <<0, 0, 0>>
    /\ best_overhang_cm = Unset
    /\ orientations = <<>>
    /\ results = <<>>
    /\ result = NoResult
    /\ calls = 0
    /\ rebound = FALSE
    /\ last_inputs = NoResult
    /\ error = NoError
    /\ other = NoOptimizer
    /\ frames = NoFrames

NextAnyInput == Optimize

SpecAnyInput == InitAnyInput /\ [][NextAnyInput]_vars

(***************************************************************************)
(* Binary floating point.  The lengths handed to optimize() are Python     *)
(* floats.  Here they are decimal numbers of two decimals, as the          *)
(* number_input fields of src/app.py deliver them, held as whole numbers   *)
(* of hundredths of a metre: n stands for the float nearest to n / 100.    *)
(* The additions, comparisons, divisions, floors, multiplications and the  *)
(* final rounding of optimize() are carried out as IEEE 754 binary64       *)
(* carries them out: every result is the exact result rounded to 53        *)
(* significant bits, ties to even.                                         *)
(*                                                                         *)
(* A non-negative float v is held as the natural number v * 2^64, which is *)
(* whole for every float of 2^-12 and above; all floats that occur here    *)
(* are 0 or at least 0.01, except differences, which are multiples of the  *)
(* operands' last bit.  Natural numbers beyond the range of the model      *)
(* checker's integers are sequences of limbs of 15 bits, least significant *)
(* limb first, without leading zero limbs; <<>> is 0.                      *)
(***************************************************************************)

\* Bits in a limb
LimbBits == 15

LimbBase == 2^LimbBits

\* Bits after the binary point in the representation of a float
FractionBits == 64

\* Significant bits of a binary64 float
Precision == 53

\* The i-th limb of a, 0 beyond its length
Limb(a, i) == IF i <= Len(a) THEN a[i] ELSE 0

\* a without leading zero limbs
RECURSIVE Norm(_)
Norm(a) == IF a # <<>> /\ a[Len(a)] = 0 THEN Norm(SubSeq(a, 1, Len(a) - 1)) ELSE a

\* The limbs of the integer n
RECURSIVE Big(_)
Big(n) == IF n = 0 THEN <<>> ELSE <<n % LimbBase>> \o Big(n \div LimbBase)

\* The integer of the limbs a
RECURSIVE ToInt(_)
ToInt(a) == IF a = <<>> THEN 0 ELSE a[1] + LimbBase * ToInt(Tail(a))

RECURSIVE AddFrom(_, _, _, _)
AddFrom(a, b, i, carry) ==
    IF i > Len(a) /\ i > Len(b)
    THEN IF carry = 0 THEN <<>> ELSE <<carry>>
    ELSE LET s == Limb(a, i) + Limb(b, i) + carry
         IN  <<s % LimbBase>> \o AddFrom(a, b, i + 1, s \div LimbBase)

\* a + b
BigAdd(a, b) == Norm(AddFrom(a, b, 1, 0))

RECURSIVE SubFrom(_, _, _, _)
SubFrom(a, b, i, borrow) ==
    IF i > Len(a) THEN <<>>
    ELSE LET s == Limb(a, i) - Limb(b, i) - borrow
         IN  <<(s + LimbBase) % LimbBase>> \o SubFrom(a, b, i + 1, IF s < 0 THEN 1 ELSE 0)

\* a - b, for a >= b
BigSub(a, b) == Norm(SubFrom(a, b, 1, 0))

RECURSIVE CmpFrom(_, _, _)
CmpFrom(a, b, i) ==
    IF i = 0 THEN 0
    ELSE IF a[i] > b[i] THEN 1
    ELSE IF a[i] < b[i] THEN 0 - 1
    ELSE CmpFrom(a, b, i - 1)

\* 1, 0 or -1 as a is greater than, equal to or less than b
BigCmp(a, b) ==
    IF Len(a) > Len(b) THEN 1
    ELSE IF Len(a) < Len(b) THEN 0 - 1
    ELSE CmpFrom(a, b, Len(a))

RECURSIVE MulFrom(_, _, _, _)
MulFrom(a, c, i, carry) ==
    IF i > Len(a)
    THEN IF carry = 0 THEN <<>> ELSE <<carry>>
    ELSE LET s == a[i] * c + carry
         IN  <<s % LimbBase>> \o MulFrom(a, c, i + 1, s \div LimbBase)

\* a * c for an integer c of at most LimbBase
MulSmall(a, c) == Norm(MulFrom(a, c, 1, 0))

RECURSIVE DivFrom(_, _, _, _)
DivFrom(a, c, i, r) ==
    IF i = 0 THEN [q |-> <<>>, r |-> r]
    ELSE LET cur == r * LimbBase + a[i]
             lower == DivFrom(a, c, i - 1, cur % c)
         IN  [q |-> Append(lower.q, cur \div c), r |-> lower.r]

\* Quotient q and remainder r (an integer) of a by an integer c of at most LimbBase
DivSmall(a, c) ==
    LET d == DivFrom(a, c, Len(a), 0) IN [q |-> Norm(d.q), r |-> d.r]

Zeros(n) == [i \in 1..n |-> 0]

\* a * 2^k
Shl(a, k) ==
    IF a = <<>> THEN <<>>
    ELSE Zeros(k \div LimbBits) \o MulSmall(a, 2^(k % LimbBits))

\* Quotient q and remainder r of a by 2^k
ShrRem(a, k) ==
    LET s == k \div LimbBits
        low == SubSeq(a, 1, IF s < Len(a) THEN s ELSE Len(a))
        high == SubSeq(a, s + 1, Len(a))
        d == DivSmall(high, 2^(k % LimbBits))
    IN  [q |-> d.q,
         r |-> Norm(low \o Zeros(s - Len(low)) \o <<d.r>>)]

RECURSIVE SmallBitLen(_)
SmallBitLen(n) == IF n = 0 THEN 0 ELSE 1 + SmallBitLen(n \div 2)

\* The number of bits of a
BitLen(a) ==
    IF a = <<>> THEN 0 ELSE LimbBits * (Len(a) - 1) + SmallBitLen(a[Len(a)])

\* Bit i of a, bit 0 being the least significant
Bit(a, i) == (Limb(a, (i \div LimbBits) + 1) \div 2^(i % LimbBits)) % 2

\* Binary long division by b: the bits i-1 .. 0 of one limb of the dividend
\* are brought down to the remainder r, the quotient so far being q
RECURSIVE DivBits(_, _, _, _, _)
DivBits(limb, b, i, q, r) ==
    IF i = 0 THEN [q |-> q, r |-> r]
    ELSE CHOOSE d \in
           { DivBits(limb, b, i - 1, s[1], s[2])
             : s \in { IF BigCmp(r2, b) >= 0
                       THEN <<BigAdd(MulSmall(q, 2), <<1>>), BigSub(r2, b)>>
                       ELSE <<MulSmall(q, 2), r2>>
                       : r2 \in {BigAdd(MulSmall(r, 2), Big((limb \div 2^(i - 1)) % 2))} } } : TRUE

RECURSIVE DivLimbs(_, _, _, _, _)
DivLimbs(a, b, j, q, r) ==
    IF j = 0 THEN [q |-> q, r |-> r]
    ELSE CHOOSE d \in
           { DivLimbs(a, b, j - 1, s.q, s.r)
             : s \in {DivBits(a[j], b, LimbBits, q, r)} } : TRUE

\* Quotient q and remainder r of a by b, for b > 0
BigDivMod(a, b) == DivLimbs(a, b, Len(a), <<>>, <<>>)

\* The float nearest to the real number that is t, or, when sticky, lies
\* strictly between t and t + 1 (both in units of 2^-64): t is rounded to
\* Precision significant bits, ties to even
RoundToFloat(t, sticky) ==
    LET d == BitLen(t) - Precision
    IN  IF d <= 0 THEN t
        ELSE LET s == ShrRem(t, d)
                 c == BigCmp(s.r, Shl(<<1>>, d - 1))
                 up == c > 0 \/ (c = 0 /\ (sticky \/ Bit(s.q, 0) = 1))
             IN  Shl(IF up THEN BigAdd(s.q, <<1>>) ELSE s.q, d)

\* The float a decimal literal of n hundredths denotes
Float(n) ==
    LET d == DivSmall(Shl(Big(n), FractionBits), 100) IN RoundToFloat(d.q, d.r # 0)

\* a / b
FloatDiv(a, b) ==
    LET d == BigDivMod(Shl(a, FractionBits), b) IN RoundToFloat(d.q, d.r # <<>>)

\* a + b
FloatAdd(a, b) == RoundToFloat(BigAdd(a, b), FALSE)

\* a - b, for a >= b
FloatSub(a, b) == RoundToFloat(BigSub(a, b), FALSE)

\* c * a for an int c
FloatMulInt(c, a) == RoundToFloat(MulSmall(a, c), FALSE)

\* a > b
FloatGreater(a, b) == BigCmp(a, b) > 0

\* math.floor(a)
Floor(a) == ToInt(ShrRem(a, FractionBits).q)

\* round(a, 1) in tenths: the decimal of one digit nearest to the exact
\* value of a, ties to even
RoundTenths(a) ==
    LET s == ShrRem(MulSmall(a, 10), FractionBits)
        c == BigCmp(s.r, Shl(<<1>>, FractionBits - 1))
        up == c > 0 \/ (c = 0 /\ Bit(s.q, 0) = 1)
    IN  ToInt(s.q) + (IF up THEN 1 ELSE 0)

\* Container.effective_y on floats
effective_y_float(c) == FloatAdd(Float(c.dimensions.y), Float(c.y_tolerance))

\* The feasibility test of calculate_quantity on floats
FitsFloat(c, orientation) ==
    ~ (\/ FloatGreater(Float(orientation[1]), Float(c.dimensions.x))
       \/ FloatGreater(Float(orientation[2]), effective_y_float(c))
       \/ FloatGreater(Float(orientation[3]), Float(c.dimensions.z)))

\* PackingOptimizer.calculate_quantity(orientation) on floats
calculate_quantity_float(c, orientation) ==
    IF ~ FitsFloat(c, orientation)
    THEN [total |-> 0, distribution |-> <<0, 0, 0>>]
    ELSE LET count_x == Floor(FloatDiv(Float(c.dimensions.x), Float(orientation[1])))
             count_y == Floor(FloatDiv(effective_y_float(c), Float(orientation[2])))
             count_z == Floor(FloatDiv(Float(c.dimensions.z), Float(orientation[3])))
         IN  [total |-> count_x * count_y * count_z,
              distribution |-> <<count_x, count_y, count_z>>]

\* round(max(0, distribution[1] * orientation[1] - container.dimensions.y) * 100, 1),
\* in tenths of a centimetre
OverhangCmFloat(c, orientation, distribution) ==
    LET along == FloatMulInt(distribution[2], Float(orientation[2]))
        depth == Float(c.dimensions.y)
    IN  IF FloatGreater(along, depth)
        THEN RoundTenths(FloatMulInt(100, FloatSub(along, depth)))
        ELSE 0

\* One iteration of the loop of optimize() on floats
IterateFloat(acc, c, orientation) ==
    CHOOSE next \in
      { LET appended == Append(acc.results,
                               [orientation |-> orientation,
                                total |-> q.total,
                                distribution |-> q.distribution,
                                y_overhang_cm |-> y_overhang_cm])
        IN  IF Better(q.total, acc.best_count)
            THEN [best_count |-> q.total,
                  best_orientation |-> orientation,
                  best_distribution |-> q.distribution,
                  best_overhang_cm |-> y_overhang_cm,
                  results |-> appended,
                  error |-> acc.error]
            ELSE [acc EXCEPT !.results = appended]
        : <<q, y_overhang_cm>> \in
            { <<cq, OverhangCmFloat(c, orientation, cq.distribution)>>
              : cq \in {calculate_quantity_float(c, orientation)} } } : TRUE

RECURSIVE LoopFloat(_, _, _, _)
LoopFloat(acc, c, os, k) ==
    IF k > Len(os) THEN acc
    ELSE LoopFloat(IterateFloat(acc, c, os[k]), c, os, k + 1)

\* The two-decimal lengths explored, in hundredths of a metre
FloatContainers == {Container(220, 130, z, t) : z \in {200, 220, 240}, t \in {0, 13}}
FloatProducts == {Product(l, w, h) : l \in {20, 138, 188}, w \in {20, 138, 188}, h \in {20, 138, 188}}

InitFloat ==
    /\ container \in FloatContainers
    /\ product \in FloatProducts
    /\ lock_vertical \in BOOLEAN
    /\ best_orientation = None
    /\ best_count = 0
    /\ best_distribution = <<0, 0, 0>>
    /\ best_overhang_cm = Unset
    /\ orientations = <<>>
    /\ results = <<>>
    /\ result = NoResult
    /\ calls = 0
    /\ rebound = FALSE
    /\ last_inputs = NoResult
    /\ error = NoError
    /\ other = NoOptimizer
    /\ frames = NoFrames

\* optimizer.optimize() on floats
OptimizeFloat ==
    /\ calls < MaxCalls
    /\ \E os \in {get_orientations(product, lock_vertical)} :
       \E start \in {[best_count |-> best_count,
                       best_orientation |-> best_orientation,
                       best_distribution |-> best_distribution,
                       best_overhang_cm |-> best_overhang_cm,
                       results |-> EmptyResults(results),
                       error |-> NoError]} :
       \E end \in {LoopFloat(start, container, os, 1)} :
           /\ orientations' = os
           /\ results' = end.results
           /\ best_count' = end.best_count
           /\ best_orientation' = end.best_orientation
           /\ best_distribution' = end.best_distribution
           /\ error' = end.error
           /\ best_overhang_cm' = IF end.best_count = 0 THEN 0 ELSE end.best_overhang_cm
           /\ result' = [returned |-> TRUE,
                         best_orientation |-> end.best_orientation,
                         best_count |-> end.best_count,
                         best_distribution |-> end.best_distribution,
                         overflow_y |-> best_overhang_cm',
                         all_results |-> end.results]
    /\ last_inputs' = Inputs
    /\ calls' = calls + 1
    /\ UNCHANGED <<container, product, lock_vertical, rebound, other, frames>>

NextFloat == OptimizeFloat

SpecFloat == InitFloat /\ [][NextFloat]_vars

(***************************************************************************)
(* What optimize() is expected to return for given inputs, stated without  *)
(* the loop: the maximum over the candidates and its first occurrence.     *)
(***************************************************************************)

\* The candidate orientations of the inputs inp
Candidates(inp) == get_orientations(inp.product, inp.lock_vertical)

\* calculate_quantity(o).total of the k-th candidate
TotalOf(inp, k) == calculate_quantity(inp.container, Candidates(inp)[k]).total

\* The greatest total over all candidates
MaxTotal(inp) ==
    CHOOSE m \in {TotalOf(inp, k) : k \in DOMAIN Candidates(inp)} :
        \A k \in DOMAIN Candidates(inp) : TotalOf(inp, k) <= m

\* The first candidate that reaches the greatest total
FirstBest(inp) ==
    CHOOSE k \in DOMAIN Candidates(inp) :
        /\ TotalOf(inp, k) = MaxTotal(inp)
        /\ \A j \in 1..(k - 1) : TotalOf(inp, j) < MaxTotal(inp)

\* The result of a run of optimize() alone on inputs inp
Expected(inp) ==
    IF MaxTotal(inp) = 0
    THEN [best_orientation |-> None, best_count |-> 0,
          best_distribution |-> <<0, 0, 0>>, overflow_y |-> 0]
    ELSE LET o == Candidates(inp)[FirstBest(inp)]
             q == calculate_quantity(inp.container, o)
         IN  [best_orientation |-> o, best_count |-> q.total,
              best_distribution |-> q.distribution,
              overflow_y |-> OverhangCm(YOverhang(inp.container, o, q.distribution))]

\* optimize() has returned a dictionary
Returned == result.returned

\* The first optimize() of a freshly constructed instance has returned
FreshReturned == Returned /\ calls = 1

\* The totals of the candidates os in container c, in candidate order
Totals(c, os) == [k \in DOMAIN os |-> calculate_quantity(c, os[k]).total]

\* The greatest entry of the non-empty sequence ts
Greatest(ts) ==
    CHOOSE m \in {ts[k] : k \in DOMAIN ts} : \A k \in DOMAIN ts : ts[k] <= m

\* C1: on a fresh instance, optimize() returns as best_count the maximum of
\* calculate_quantity(o).total over the candidate orientations, and when that
\* maximum is positive best_orientation is a candidate reaching it and
\* best_distribution is that candidate's per-axis counts.
C1_BestIsMaximum ==
    FreshReturned =>
        \A c \in {last_inputs.container} :
        \A os \in {Candidates(last_inputs)} :
        \A ts \in {Totals(c, os)} :
        \A m \in {Greatest(ts)} :
            /\ result.best_count = m
            /\ m > 0 =>
                  \E k \in DOMAIN os :
                      /\ result.best_orientation = os[k]
                      /\ ts[k] = m
                      /\ result.best_distribution = calculate_quantity(c, os[k]).distribution

\* C1 witness: a fresh run whose candidates have different totals, the
\* greatest of them positive and not reached by the last candidate
C1_Witness ==
    /\ FreshReturned
    /\ MaxTotal(last_inputs) > 1
    /\ TotalOf(last_inputs, Len(Candidates(last_inputs))) < MaxTotal(last_inputs)
    /\ TotalOf(last_inputs, Len(Candidates(last_inputs))) > 0
    /\ result.best_count = MaxTotal(last_inputs)

\* The first call on each of the two fresh optimizers has returned
BothReturned == FreshReturned /\ other.constructed /\ other.result.returned

\* Container d is container c with exactly one of x, y and z made larger
OneDimensionLarger(c, d) ==
    /\ c.y_tolerance = d.y_tolerance
    /\ \E f \in {"x", "y", "z"} :
          /\ d.dimensions[f] > c.dimensions[f]
          /\ \A g \in {"x", "y", "z"} \ {f} : d.dimensions[g] = c.dimensions[g]

\* C2: every optimize() returns the best result of the inputs bound at the
\* time of the call, whatever an earlier call on the instance returned.
C2_FreshEveryCall ==
    Returned =>
        /\ result.best_count = Expected(last_inputs).best_count
        /\ result.best_orientation = Expected(last_inputs).best_orientation
        /\ result.best_distribution = Expected(last_inputs).best_distribution
        /\ result.overflow_y = Expected(last_inputs).overflow_y

\* C3: a call of optimize() that follows another one with container, product
\* and lock_vertical unchanged returns the dictionary the earlier call returned.
C3_RepeatedCallsAgree ==
    [][(calls' = calls + 1 /\ result.returned /\ last_inputs = Inputs)
          => result' = result]_vars

\* C3 witness: a second call with unchanged inputs has returned a non-empty
\* best after evaluating six candidates with different totals
C3_Witness ==
    /\ Returned
    /\ calls = 2
    /\ ~ rebound
    /\ result.best_count > 0
    /\ result.best_count = MaxTotal(Inputs)
    /\ Len(result.all_results) = 6
    /\ \E k \in DOMAIN result.all_results : result.all_results[k].total = 0

\* Two different positions of the candidate sequence reach the maximal total
TieAtMaximum(inp) ==
    /\ MaxTotal(inp) > 0
    /\ \E j, k \in DOMAIN Candidates(inp) :
          j < k /\ TotalOf(inp, j) = MaxTotal(inp) /\ TotalOf(inp, k) = MaxTotal(inp)

\* C4: when two candidate orientations both reach the maximal total,
\* optimize() returns the one that appears earlier in the sequence of
\* get_orientations (the running best being replaced only by a strictly
\* greater total).
C4_EarliestOfTies ==
    (Returned /\ TieAtMaximum(last_inputs)) =>
        result.best_orientation = Candidates(last_inputs)[FirstBest(last_inputs)]

\* C5: if no candidate orientation yields a total greater than 0, optimize()
\* returns best_count 0, no best_orientation, best_distribution (0, 0, 0) and
\* overflow_y 0.
C5_NothingFits ==
    (Returned /\ \A k \in DOMAIN result.all_results : result.all_results[k].total = 0)
        => /\ result.best_count = 0
           /\ result.best_orientation = None
           /\ result.best_distribution = <<0, 0, 0>>
           /\ result.overflow_y = 0

\* C6: on a fresh instance best_count is 0 only when every candidate fails the
\* feasibility test; when some candidate passes it, best_count is at least 1.
C6_ZeroOnlyWhenNothingFits ==
    FreshReturned =>
        \A c \in {last_inputs.container} :
        \A os \in {Candidates(last_inputs)} :
            /\ result.best_count = 0 => \A k \in DOMAIN os : ~ Fits(c, os[k])
            /\ (\E k \in DOMAIN os : Fits(c, os[k])) => result.best_count >= 1

\* C6 witness: a fresh run on inputs where the only candidates that pass the
\* feasibility test need the tolerance to do so
C6_Witness ==
    /\ FreshReturned
    /\ result.best_count >= 1
    /\ LET c == last_inputs.container
           os == Candidates(last_inputs)
       IN  /\ \E k \in DOMAIN os : Fits(c, os[k])
           /\ \E k \in DOMAIN os : ~ Fits(c, os[k])
           /\ \A k \in DOMAIN os : Fits(c, os[k]) => os[k][2] > c.dimensions.y

\* C7: the returned overflow_y is max(0, best_distribution.y * best_orientation.y
\* - container.dimensions.y) scaled to centimetres and rounded to one decimal,
\* for the container bound when optimize() was called, after any number of calls.
C7_OverflowOfBest ==
    Returned =>
        result.overflow_y =
            IF result.best_orientation = None THEN 0
            ELSE OverhangCm(Max(0, result.best_distribution[2] * result.best_orientation[2]
                                   - last_inputs.container.dimensions.y))

\* Some edge of orientation o exceeds its bound in container c
Exceeds(c, o) ==
    \/ o[1] > c.dimensions.x
    \/ o[2] > c.dimensions.y + c.y_tolerance
    \/ o[3] > c.dimensions.z

\* C8: calculate_quantity returns total 0 and distribution (0, 0, 0) whenever
\* one of the three edges exceeds its bound (dimensions.x, dimensions.y +
\* y_tolerance, dimensions.z), and otherwise a count of at least 1 on every
\* axis, also on an axis where the edge is exactly equal to the bound.
C8_BoundaryFits ==
    Returned =>
        \A k \in DOMAIN result.all_results :
            LET r == result.all_results[k]
                o == r.orientation
                c == last_inputs.container
            IN  IF Exceeds(c, o)
                THEN r.total = 0 /\ r.distribution = <<0, 0, 0>>
                ELSE /\ r.total >= 1
                     /\ \A a \in 1..3 : r.distribution[a] >= 1
                     /\ o[1] = c.dimensions.x => r.distribution[1] = 1
                     /\ o[2] = c.dimensions.y + c.y_tolerance => r.distribution[2] = 1
                     /\ o[3] = c.dimensions.z => r.distribution[3] = 1

\* C8 witness: a call has evaluated an orientation that exceeds a bound and one
\* whose X edge is equal to dimensions.x and whose Y edge is equal to the
\* effective depth, beyond the nominal depth
C8_Witness ==
    /\ Returned
    /\ LET c == last_inputs.container
           rs == result.all_results
       IN  /\ \E k \in DOMAIN rs : Exceeds(c, rs[k].orientation)
           /\ \E k \in DOMAIN rs :
                 /\ ~ Exceeds(c, rs[k].orientation)
                 /\ c.y_tolerance > 0
                 /\ rs[k].orientation[2] = c.dimensions.y + c.y_tolerance
                 /\ rs[k].orientation[1] = c.dimensions.x
                 /\ rs[k].distribution[2] = 1

IndexPermutations == {f \in [1..3 -> 1..3] : \A a, b \in 1..3 : f[a] = f[b] => a = b}

\* The six permutations of the edge positions, each listed once
EachPermutationOnce ==
    << <<1, 2, 3>>, <<1, 3, 2>>, <<2, 1, 3>>, <<2, 3, 1>>, <<3, 1, 2>>, <<3, 2, 1>> >>

\* EachPermutationOnce is what its name says
ListsEveryPermutation ==
    /\ {EachPermutationOnce[k] : k \in 1..6} = IndexPermutations
    /\ Cardinality(IndexPermutations) = 6

\* The edges e placed on the axes as f says
Placed(e, f) == <<e[f[1]], e[f[2]], e[f[3]]>>

\* C10: with lock_vertical the candidates are exactly (edge0, edge1, edge2)
\* and (edge1, edge0, edge2), in that order; without it they are exactly 6,
\* one for each permutation of the edge positions (in the order in which
\* itertools lists them), also when edges are equal.
C10_Orientations ==
    Returned =>
        \A e \in {last_inputs.product.dimensions} :
            IF last_inputs.lock_vertical
            THEN orientations = << <<e[1], e[2], e[3]>>, <<e[2], e[1], e[3]>> >>
            ELSE /\ ListsEveryPermutation
                 /\ Len(orientations) = 6
                 /\ \A k \in 1..6 : orientations[k] = Placed(e, EachPermutationOnce[k])

\* C10 witness: an unlocked call on a product with two equal edges had its six
\* candidates, two of which are equal as tuples
C10_Witness ==
    /\ Returned
    /\ ~ last_inputs.lock_vertical
    /\ last_inputs.product.dimensions[1] = last_inputs.product.dimensions[2]
    /\ last_inputs.product.dimensions[2] # last_inputs.product.dimensions[3]
    /\ Len(orientations) = 6
    /\ orientations[1] = orientations[3]

\* C11: monotonicity.  For two fresh optimizers with the same product and
\* flag whose containers differ only in that one of x, y and z is larger in the
\* second, the best_count of the second is never smaller than that of the first.
C11_Monotone ==
    (/\ BothReturned
     /\ other.product = last_inputs.product
     /\ other.lock_vertical = last_inputs.lock_vertical
     /\ OneDimensionLarger(last_inputs.container, other.container))
        => other.result.best_count >= result.best_count

\* C11 witness: the larger container holds strictly more, and the best
\* orientation of the smaller one is not the best of the larger one
C11_Witness ==
    /\ BothReturned
    /\ other.lock_vertical = last_inputs.lock_vertical
    /\ OneDimensionLarger(last_inputs.container, other.container)
    /\ result.best_count > 0
    /\ other.result.best_count > result.best_count
    /\ other.result.best_orientation # result.best_orientation

\* The inputs inp are what the specification calls validated: positive
\* container dimensions, a non-negative tolerance and positive product edges
Validated(inp) ==
    /\ inp.container.dimensions.x > 0
    /\ inp.container.dimensions.y > 0
    /\ inp.container.dimensions.z > 0
    /\ inp.container.y_tolerance >= 0
    /\ \A a \in 1..3 : inp.product.dimensions[a] > 0

\* C12: a Container with a zero or negative dimension or a negative
\* tolerance, and a Product with a non-positive edge, are rejected when they
\* are constructed, so optimize() never runs on such inputs and no error is
\* raised while it runs.
C12_InvalidRejected ==
    calls > 0 => (Validated(last_inputs) /\ error = NoError)

\* C13: for positive container dimensions, non-negative tolerance and positive
\* product edges, optimize() ends after examining each candidate orientation
\* exactly once (at most 6 iterations), raises no exception and returns a
\* result with best_count >= 0.
C13_Terminates ==
    (calls > 0 /\ Validated(last_inputs)) =>
        /\ error = NoError
        /\ Returned
        /\ \A os \in {Candidates(last_inputs)} :
              /\ Len(os) <= 6
              /\ Len(result.all_results) = Len(os)
              /\ \A k \in DOMAIN os : result.all_results[k].orientation = os[k]
        /\ result.best_count >= 0

\* C13 witness: a second call on validated inputs has returned after six
\* iterations, some of them on orientations that do not fit
C13_Witness ==
    /\ calls = 2
    /\ Validated(last_inputs)
    /\ Returned
    /\ Len(result.all_results) = 6
    /\ \E k \in 1..6 : result.all_results[k].total = 0
    /\ result.best_count > 0

\* The inputs of scenario A, in hundredths of a metre
ScenarioA ==
    [container |-> Container(220, 130, 240, 13),
     product |-> Product(138, 188, 20),
     lock_vertical |-> TRUE]

\* C14: for Container(2.2, 1.3, 2.4, 0.13), Product(1.38, 1.88, 0.2) and
\* lock_vertical = True, the first orientation (1.38, 1.88, 0.2) does not
\* fit along Y, and optimize() on the fresh instance returns best_count 12,
\* best_distribution (1, 1, 12) and best_orientation (1.88, 1.38, 0.2)
C14_ScenarioA ==
    (FreshReturned /\ last_inputs = ScenarioA) =>
        /\ result.all_results[1].orientation = <<138, 188, 20>>
        /\ result.all_results[1].total = 0
        /\ result.best_count = 12
        /\ result.best_distribution = <<1, 1, 12>>
        /\ result.best_orientation = <<188, 138, 20>>

\* C15: the best-so-far state that optimize() updates is private to one
\* invocation.  When two invocations on the same instance interleave at the
\* granularity of single reads and writes of best_count, best_orientation,
\* best_distribution and best_overhang_cm, each invocation still returns, and
\* returns a best_orientation, best_distribution and best_count that belong to
\* one and the same orientation and are the result of a run alone.
C15_InvocationsIsolated ==
    \A t \in Threads :
        /\ frames[t].pc # "AttributeError"
        /\ frames[t].pc = "returned" =>
              \A alone \in {Expected(Inputs)} :
                  /\ frames[t].ret.best_count = alone.best_count
                  /\ frames[t].ret.best_orientation = alone.best_orientation
                  /\ frames[t].ret.best_distribution = alone.best_distribution

\* C16: after every optimize() call on an instance whose inputs were never
\* changed (any number of calls), best_count is the product of the three
\* entries of best_distribution, best_count > 0 exactly when best_orientation
\* is not None, a best_orientation that is not None is one of the candidates
\* and calculate_quantity of it is (best_count, best_distribution), and the
\* fields the visualization reads are the returned values.
C16_FieldsConsistent ==
    (Returned /\ ~ rebound) =>
        /\ best_count = best_distribution[1] * best_distribution[2] * best_distribution[3]
        /\ (best_count > 0) <=> (best_orientation # None)
        /\ best_orientation # None =>
              /\ \E k \in DOMAIN Candidates(Inputs) : Candidates(Inputs)[k] = best_orientation
              /\ \A q \in {calculate_quantity(container, best_orientation)} :
                    q.total = best_count /\ q.distribution = best_distribution
        /\ result.best_count = best_count
        /\ result.best_orientation = best_orientation
        /\ result.best_distribution = best_distribution

\* C16 witness: the second call on unchanged inputs has returned a best
\* orientation that is not the first candidate and holds several units
C16_Witness ==
    /\ Returned
    /\ ~ rebound
    /\ calls = 2
    /\ best_count > 1
    /\ best_orientation # Candidates(Inputs)[1]
    /\ best_distribution # <<1, 1, 1>>

\* visualize_static: the grid positions (i, j, k) at which a cuboid is drawn
\* for the counts in distribution
GridCells(distribution) ==
    {<<i, j, k>> : i \in 0..(distribution[1] - 1),
                   j \in 0..(distribution[2] - 1),
                   k \in 0..(distribution[3] - 1)}

\* The cuboid of size orientation drawn with its origin at (i * ox, j * oy,
\* k * oz) lies within container c on X and Z and within the effective depth
CellInside(c, orientation, cell) ==
    /\ cell[1] * orientation[1] + orientation[1] <= c.dimensions.x
    /\ cell[2] * orientation[2] + orientation[2] <= c.dimensions.y + c.y_tolerance
    /\ cell[3] * orientation[3] + orientation[3] <= c.dimensions.z

\* The block of distribution copies of orientation stays inside the bounds of c
BlockInside(c, orientation, distribution) ==
    /\ distribution[1] * orientation[1] <= c.dimensions.x
    /\ distribution[2] * orientation[2] <= c.dimensions.y + c.y_tolerance
    /\ distribution[3] * orientation[3] <= c.dimensions.z

\* C17: for every orientation with counts (cx, cy, cz) returned by
\* calculate_quantity the tiled block stays inside the bounds used for fitting
\* (cx * ox <= x, cy * oy <= y + y_tolerance, cz * oz <= z); hence every grid
\* cell placed by the visualization, which reads best_orientation and
\* best_distribution of the optimizer, lies within its container on X and Z and
\* within the effective depth on Y, and the number of cells is best_count.
C17_BlockInside ==
    (Returned /\ Inputs = last_inputs) =>
        /\ \A n \in DOMAIN result.all_results :
              \A r \in {result.all_results[n]} :
                  /\ BlockInside(container, r.orientation, r.distribution)
                  /\ \A cell \in GridCells(r.distribution) :
                        CellInside(container, r.orientation, cell)
                  /\ Cardinality(GridCells(r.distribution)) = r.total
        /\ best_count > 0 =>
              /\ \A cell \in GridCells(best_distribution) :
                    CellInside(container, best_orientation, cell)
              /\ Cardinality(GridCells(best_distribution)) = best_count

\* The overhang cm, in tenths of a centimetre, is within 0 and the tolerance
\* of c scaled to centimetres (y_tolerance * 100): both sides are taken times
\* 10000, the tolerance being y_tolerance * 6 / 10000 metres
WithinTolerance(c, cm) ==
    /\ cm >= 0
    /\ cm * 10000 <= c.y_tolerance * 6 * 100 * 10
    /\ c.y_tolerance = 0 => cm = 0

\* C18: the overhang reported for any orientation (in all_results and as
\* overflow_y) never exceeds the depth tolerance, 0 <= overhang <=
\* y_tolerance * 100; with y_tolerance = 0 it is 0, and for an infeasible
\* orientation (distribution (0, 0, 0)) it is 0.
C18_OverhangWithinTolerance ==
    Returned =>
        \A c \in {last_inputs.container} :
            /\ \A n \in DOMAIN result.all_results :
                  \A r \in {result.all_results[n]} :
                      /\ WithinTolerance(c, r.y_overhang_cm)
                      /\ r.distribution = <<0, 0, 0>> => r.y_overhang_cm = 0
            /\ WithinTolerance(c, result.overflow_y)
            /\ result.best_distribution = <<0, 0, 0>> => result.overflow_y = 0

\* C19: for the same Container and Product, the best_count returned by a
\* fresh optimizer with lock_vertical set is never greater than the best_count
\* returned by a fresh optimizer without it.
C19_LockNeverBetter ==
    (/\ BothReturned
     /\ other.container = last_inputs.container
     /\ other.product = last_inputs.product
     /\ last_inputs.lock_vertical
     /\ ~ other.lock_vertical)
        => result.best_count <= other.result.best_count

\* C19 witness: the locked optimizer has found a fit and the unlocked one a
\* better fit, with an orientation the lock excludes
C19_Witness ==
    /\ BothReturned
    /\ other.container = last_inputs.container
    /\ last_inputs.lock_vertical
    /\ ~ other.lock_vertical
    /\ result.best_count > 0
    /\ result.best_count < other.result.best_count
    /\ other.result.best_orientation[3] # last_inputs.product.dimensions[3]

====
